---- MODULE Spec2Model ----
(***************************************************************************)
(* Model of the request pipeline of package unifi (api.go): get, post,     *)
(* doReq and login, together with the cookie jar of the HTTP client and    *)
(* the controller, which answers every request with any response it        *)
(* likes.  One doReq activation is a frame; login runs through post and    *)
(* doReq, so calls nest and the frames of one caller form a stack.         *)
(***************************************************************************)
EXTENDS Integers, Sequences, FiniteSets, TLC

\* Deepest chain of doReq activations explored (a call plus nested logins).
MaxDepth == 3

\* Process runs explored, one after the other on the same auth file.
MaxRuns == 2

\* Goroutines that may drive the one API value.
Callers == {1, 2}

\* Sites the accessors are called with.
Sites == {"default"}

\* A JSON key that the body does not carry.
NoField == "<absent>"
\* An http.Cookie: Path is the Path attribute, absent when HasPath is FALSE.
Cookie(name, value, hasPath, path) ==
  [Name |-> name, Value |-> value, HasPath |-> hasPath, Path |-> path]
\* A response without a Set-Cookie header.
NoCookie == Cookie("", "", FALSE, <<>>)

LoginRequired == "api.err.LoginRequired"
StatusOK == 200
StatusUnauthorized == 401

\* What the controller may answer.
Statuses == {StatusOK, StatusUnauthorized, 500}
Codes == {NoField, "ok", "error"}
Msgs == {NoField, LoginRequired, "api.err.Invalid"}
Datas == {NoField, "[a1]", "[b2]"}
\* The session cookie is set for the path "/" or without a Path attribute.
SetCookies == {NoCookie, Cookie("unifises", "s1", TRUE, <<>>),
               Cookie("unifises", "s1", FALSE, <<>>)}

\* Response bodies: an envelope with any of its keys absent, or bytes that
\* json.Unmarshal rejects.
Envelopes == [valid : {TRUE}, rc : Codes, msg : Msgs, data : Datas]
BadBody == [valid |-> FALSE, rc |-> NoField, msg |-> NoField, data |-> NoField]
Bodies == Envelopes \cup {BadBody}
Responses == [status : Statuses, body : Bodies, cookie : SetCookies]

\* The auth records a store may load.
Auths == [Username : {"admin"}, Password : {"pw1"},
          ControllerHost : {"unifi"},
          Cookies : {{}, {Cookie("unifises", "s0", FALSE, <<>>)}}]

\* What the controller answers while a session is kept up: success with a
\* payload or the login-required envelope, with or without a session cookie.
SessionResponses ==
  [status : {StatusOK, StatusUnauthorized},
   body : {[valid |-> TRUE, rc |-> "ok", msg |-> NoField, data |-> "[a1]"],
           [valid |-> TRUE, rc |-> "error", msg |-> LoginRequired,
            data |-> NoField]},
   cookie : SetCookies]

\* The answers of a controller that only tells an expired session from a
\* valid one and sets its cookie for the path "/".
ConcResponses ==
  {r \in SessionResponses : /\ r.status = StatusOK <=> r.body.rc = "ok"
                            /\ r.cookie = NoCookie \/ r.cookie.HasPath}

\* The Auth of a process that has loaded none.
ZeroAuth ==
  [Username |-> "", Password |-> "", ControllerHost |-> "", Cookies |-> {}]

\* The auth records an auth file may hold.
StoredAuths ==
  [Username : {"admin"}, Password : {"pw1", "pw2"}, ControllerHost : {"unifi"},
   Cookies : {{}, {Cookie("unifises", "s0", FALSE, <<>>)}}]

\* Permission bits of the auth file: 0600, 0640 and 0604.
Modes == {384, 416, 388}

\* The auth file: absent, or of some mode and holding JSON of an Auth or
\* bytes that are no JSON.
NoFile == [exists |-> FALSE, mode |-> 0, valid |-> FALSE, data |-> ZeroAuth]
Files ==
  {NoFile}
    \cup [exists : {TRUE}, mode : Modes, valid : {TRUE}, data : StoredAuths]
    \cup [exists : {TRUE}, mode : Modes, valid : {FALSE}, data : {ZeroAuth}]

\* A wireless network of the controller, and the "data" members the
\* controller answers a listing with, each with the list it decodes to.
WirelessNetwork(id, guest) == [ID |-> id, Guest |-> guest]
WlanPayloads ==
  [p \in {"[]", "[g1]", "[n1]", "[n1,g2]", "[g1,n2,g3]"} |->
     CASE p = "[]" -> <<>>
       [] p = "[g1]" -> <<WirelessNetwork("g1", TRUE)>>
       [] p = "[n1]" -> <<WirelessNetwork("n1", FALSE)>>
       [] p = "[n1,g2]" -> <<WirelessNetwork("n1", FALSE),
                            WirelessNetwork("g2", TRUE)>>
       [] OTHER -> <<WirelessNetwork("g1", TRUE), WirelessNetwork("n2", FALSE),
                     WirelessNetwork("g3", TRUE)>>]

\* What the controller answers to the toggle command: a listing, success
\* without payload, an API error, the login-required envelope, a server
\* error.
ToggleResponses ==
  [status : {StatusOK},
   body : [valid : {TRUE}, rc : {"ok"}, msg : {NoField},
           data : DOMAIN WlanPayloads \cup {NoField}],
   cookie : {NoCookie}]
    \cup [status : {StatusOK, StatusUnauthorized, 500},
          body : [valid : {TRUE}, rc : {"error"},
                  msg : {LoginRequired, "api.err.Invalid"}, data : {NoField}],
          cookie : {NoCookie}]

VARIABLES
  auth,      \* api.auth
  jar,       \* api.hc.Jar: the cookies held for cookieBase
  active,    \* the goroutines that call into the API
  stack,     \* per caller: the doReq activations, outermost first
  result,    \* per caller: the finished outermost activation of the last call
  hist,      \* per caller: history of the call in progress
  file,      \* the auth file of the fileAuthStore
  proc,      \* the process: where it is, what NewAPI returned, its run
  main       \* the toggle command: where it is, its list, its log

vars == <<auth, jar, active, stack, result, hist, file, proc, main>>

----------------------------------------------------------------------------
\* Values

Nil == [class |-> "nil"]
TransportError == [class |-> "TransportError"]
DecodeError == [class |-> "DecodeError"]
APIError(code, msg) == [class |-> "APIError", code |-> code, msg |-> msg]
HTTPError(status) == [class |-> "HTTPError", status |-> status]

\* A destination nothing was decoded into.
ZeroDst == [items |-> "nil"]
\* The value json.Unmarshal builds from the bytes of a "data" member.
Decoded(d) == [items |-> d]

\* What a frame remembers of a response: its status and body.
Seen(r) == [status |-> r.status, body |-> r.body]
\* What a frame remembers of its first response: status, result code, message.
Summary(r) == [status |-> r.status, valid |-> r.body.valid,
            rc |-> r.body.rc, msg |-> r.body.msg]
NoResp == [status |-> 0, body |-> BadBody]
NoHead == [status |-> 0, valid |-> FALSE, rc |-> NoField, msg |-> NoField]
NoFailure == [class |-> "none"]

\* The errors of fileAuthStore.Load and Save.
NotExist == [class |-> "NotExist"]
SecurityError == [class |-> "SecurityError"]
ReadError == [class |-> "ReadError"]
BadAuthFile == [class |-> "BadAuthFile"]
WriteError == [class |-> "WriteError"]

\* The credential of an Auth.
Cred(a) ==
  [Username |-> a.Username, Password |-> a.Password,
   ControllerHost |-> a.ControllerHost]

\* Name and value of every cookie a jar holds.
Held(j) == {Cookie(e.Name, e.Value, FALSE, <<>>) : e \in j}

\* What the previous run left: whether its last call logged in with success,
\* the cookies its jar held when WriteConfig ran, whether Save returned nil.
NoPrev == [login |-> FALSE, held |-> {}, saved |-> FALSE]

\* A process before NewAPI.
NewProc(run, prev) ==
  [pc |-> "start", err |-> Nil, run |-> run, read |-> FALSE,
   loaded |-> Cred(ZeroAuth), prev |-> prev]

\* A process whose NewAPI returned an API made of the Auth a.
Constructed(a) ==
  [NewProc(1, NoPrev) EXCEPT !.pc = "ready", !.read = TRUE, !.loaded = Cred(a)]

\* A program other than the toggle command.
NoMain ==
  [pc |-> "idle", enable |-> FALSE, wlans |-> <<>>, i |-> 0,
   toggled |-> <<>>, log |-> <<>>]

ZeroHist ==
  [exchanges |-> 0, logins |-> 0, wire |-> <<>>, sent |-> {}, stored |-> {},
   failure |-> NoFailure]

----------------------------------------------------------------------------
\* api.go

baseURL == "https://" \o auth.ControllerHost \o ":8443"

\* json.Marshal of the login credentials, as the members of the object.
MarshalLogin == << <<"username", auth.Username>>, <<"password", auth.Password>> >>

\* A URL of the controller: u is the path, as its segments.
URL(base, u) == [Base |-> base, Path |-> u]

\* http.NewRequest: Body is what the body reader still holds, Bytes what
\* GetBody would hand out again.
NewRequest(method, u, body) ==
  [Method |-> method, URL |-> u, Referer |-> "", Bytes |-> body, Body |-> body]

\* The zero envelope decoder of doReq, Data pointing at dst.
ZeroDec == [Code |-> "", Msg |-> ""]

\* Entry of doReq: the Referer is set, the decoder and triedLogin initialised.
doReq(kind, req, referer) ==
  [kind |-> kind,
   req |-> IF referer # "" THEN [req EXCEPT !.Referer = referer] ELSE req,
   built |-> IF referer # "" THEN [req EXCEPT !.Referer = referer] ELSE req,
   dec |-> ZeroDec, dst |-> ZeroDst, triedLogin |-> FALSE,
   pc |-> "do", err |-> Nil,
   sends |-> 0, logins |-> 0,
   first |-> NoHead, last |-> NoResp, gotResp |-> FALSE,
   loginErr |-> NoFailure]

get(kind, u) == doReq(kind, NewRequest("GET", URL(baseURL, u), <<>>), "")

post(kind, u, body, referer) ==
  doReq(kind, NewRequest("POST", URL(baseURL, u), body), referer)

\* No call has finished yet.
NoResult ==
  [doReq("none", NewRequest("", URL("", <<>>), <<>>), "") EXCEPT !.pc = "none"]

login == post("login", <<"api", "login">>, MarshalLogin, baseURL \o "/login")

ListClients(site) == get("ListClients", <<"api", "s", site, "stat", "sta">>)

ListWirelessNetworks(site) ==
  get("ListWirelessNetworks", <<"api", "s", site, "list", "wlanconf">>)

\* Unmarshal with its error ignored.
Unmarshal_Lenient(dec, dst, body) ==
  [ok |-> TRUE,
   dec |-> IF body.valid
           THEN [Code |-> IF body.rc = NoField THEN dec.Code ELSE body.rc,
                 Msg |-> IF body.msg = NoField THEN dec.Msg ELSE body.msg]
           ELSE dec,
   dst |-> IF body.valid /\ body.data # NoField THEN Decoded(body.data) ELSE dst]

\* json.Unmarshal(body, &dec): a key the body lacks leaves its field alone.
Unmarshal(dec, dst, body) ==
  [ok |-> body.valid,
   dec |-> IF body.valid
           THEN [Code |-> IF body.rc = NoField THEN dec.Code ELSE body.rc,
                 Msg |-> IF body.msg = NoField THEN dec.Msg ELSE body.msg]
           ELSE dec,
   dst |-> IF body.valid /\ body.data # NoField THEN Decoded(body.data) ELSE dst]

\* Classify without the triedLogin test: every login-required 401 logs in.
Classify_Relogin(status, dec, triedLogin) ==
  IF status = StatusOK
  THEN IF dec.Code # "ok" THEN "apierr" ELSE "ok"
  ELSE IF /\ status = StatusUnauthorized
          /\ dec.Code = "error"
          /\ dec.Msg = LoginRequired
       THEN "login"
       ELSE "httperr"

\* Classify without the result code test: status 200 alone is success.
Classify_StatusOnly(status, dec, triedLogin) ==
  IF status = StatusOK
  THEN "ok"
  ELSE IF /\ status = StatusUnauthorized
          /\ ~triedLogin
          /\ dec.Code = "error"
          /\ dec.Msg = LoginRequired
       THEN "login"
       ELSE "httperr"

\* Classify with the final error dropped: an unexpected status is success.
Classify_SwallowStatus(status, dec, triedLogin) ==
  IF status = StatusOK
  THEN IF dec.Code # "ok" THEN "apierr" ELSE "ok"
  ELSE IF /\ status = StatusUnauthorized
          /\ ~triedLogin
          /\ dec.Code = "error"
          /\ dec.Msg = LoginRequired
       THEN "login"
       ELSE "ok"

\* Classify that lets one login run at a time: while some caller is inside
\* api.login() a login-required 401 is a status error.
Classify_Exclusive(status, dec, triedLogin) ==
  IF status = StatusOK
  THEN IF dec.Code # "ok" THEN "apierr" ELSE "ok"
  ELSE IF /\ status = StatusUnauthorized
          /\ ~triedLogin
          /\ dec.Code = "error"
          /\ dec.Msg = LoginRequired
          /\ \A c \in Callers : Len(stack[c]) <= 1
       THEN "login"
       ELSE "httperr"

\* Classify without the envelope test: any first 401 logs in.
Classify_AnyUnauthorized(status, dec, triedLogin) ==
  IF status = StatusOK
  THEN IF dec.Code # "ok" THEN "apierr" ELSE "ok"
  ELSE IF status = StatusUnauthorized /\ ~triedLogin
       THEN "login"
       ELSE "httperr"

\* The status switch of doReq after a body has been decoded.
Classify(status, dec, triedLogin) ==
  IF status = StatusOK
  THEN IF dec.Code # "ok" THEN "apierr" ELSE "ok"
  ELSE IF /\ status = StatusUnauthorized
          /\ ~triedLogin
          /\ dec.Code = "error"
          /\ dec.Msg = LoginRequired
       THEN "login"
       ELSE "httperr"

\* The frame when it returns err.
Return(f, err) == [f EXCEPT !.pc = "ret", !.err = err]

\* hc.Do drains the body reader and is counted.
Sent(f) == [f EXCEPT !.sends = @ + 1, !.req.Body = <<>>]

\* One iteration of the loop of doReq on response r.
Step(f, r) ==
  LET g == [Sent(f) EXCEPT !.last = Seen(r), !.gotResp = TRUE,
                           !.first = IF f.sends = 0 THEN Summary(r) ELSE @]
      u == Unmarshal(f.dec, f.dst, r.body)
      h == [g EXCEPT !.dec = u.dec, !.dst = u.dst]
      c == Classify(r.status, u.dec, f.triedLogin)
  IN IF ~u.ok THEN Return(g, DecodeError)
     ELSE CASE c = "ok" -> Return(h, Nil)
            [] c = "apierr" -> Return(h, APIError(u.dec.Code, u.dec.Msg))
            [] c = "login" -> [h EXCEPT !.pc = "login", !.logins = @ + 1]
            [] OTHER -> Return(h, HTTPError(r.status))

\* StepError that sends again instead of returning.
StepError_Retry(f) == [Sent(f) EXCEPT !.gotResp = FALSE]

\* The loop of doReq when hc.Do or ioutil.ReadAll fails.
StepError(f) == Return([Sent(f) EXCEPT !.gotResp = FALSE], TransportError)

\* AfterLogin that resends whatever login returned.
AfterLogin_IgnoreErr(f, err) ==
  [f EXCEPT !.loginErr = err, !.triedLogin = TRUE, !.pc = "do"]

\* doReq after api.login() returned err.
AfterLogin(f, err) ==
  IF err # Nil
  THEN Return([f EXCEPT !.loginErr = err], err)
  ELSE [f EXCEPT !.loginErr = Nil, !.triedLogin = TRUE, !.pc = "do"]

\* p is a prefix of q: the cookie path p matches the request path q.
PathMatch(p, q) == Len(p) <= Len(q) /\ SubSeq(q, 1, Len(p)) = p

\* cookiejar's default path of a cookie set by a response to the path u.
DefaultPath(u) == IF Len(u) <= 1 THEN <<>> ELSE SubSeq(u, 1, Len(u) - 1)

\* Jar.SetCookies(u, cs): an entry replaces the one of its name and path; a
\* cookie without a Path attribute gets the default path of u.
JarSetCookies(j, u, cs) ==
  LET new == {[Name |-> c.Name, Value |-> c.Value,
               Path |-> IF c.HasPath THEN c.Path ELSE DefaultPath(u)] : c \in cs}
  IN {e \in j : ~\E n \in new : n.Name = e.Name /\ n.Path = e.Path} \cup new

\* Jar.Cookies(u): name and value of the entries whose path matches u.
JarCookies(j, u) ==
  {Cookie(e.Name, e.Value, FALSE, <<>>) : e \in {x \in j : PathMatch(x.Path, u)}}

\* The jar after the response r to req.
JarAfter(j, req, r) ==
  IF r.cookie = NoCookie THEN j ELSE JarSetCookies(j, req.URL.Path, {r.cookie})

\* What the controller receives: the transport sends the bytes of the body
\* (handing out the body again through GetBody when the reader is drained
\* and nothing was written yet), and the cookies the jar holds for the URL.
OnWire(req, j) ==
  [Method |-> req.Method, URL |-> req.URL, Referer |-> req.Referer,
   Body |-> req.Bytes, Cookies |-> JarCookies(j, req.URL.Path)]

\* The request of an exchange as the history keeps it.
Line(req) ==
  [Method |-> req.Method, URL |-> req.URL, Referer |-> req.Referer,
   Body |-> req.Bytes]

\* The history of a call after an exchange of f: the requests in order, the
\* cookies of the latest request, the jar as the latest login response left
\* it.
Logged(h, f, j, after) ==
  [h EXCEPT !.exchanges = @ + 1,
            !.wire = Append(@, Line(f.req)),
            !.sent = OnWire(f.req, j).Cookies,
            !.stored = IF f.kind = "login" THEN after ELSE @]

\* A cookie without a Path attribute comes with answers to the login only.
Answers(rs, f) ==
  {r \in rs : (r.cookie # NoCookie /\ ~r.cookie.HasPath) => f.kind = "login"}

\* fileAuthStore.Load on the file f; io tells whether ReadFile succeeds.
\* read tells whether the contents of the file were read.
Load_NoModeCheck(f, io) ==
  IF ~f.exists THEN [err |-> NotExist, auth |-> ZeroAuth, read |-> FALSE]
  ELSE IF ~io THEN [err |-> ReadError, auth |-> ZeroAuth, read |-> FALSE]
  ELSE IF ~f.valid THEN [err |-> BadAuthFile, auth |-> ZeroAuth, read |-> TRUE]
  ELSE [err |-> Nil, auth |-> f.data, read |-> TRUE]

\* fileAuthStore.Load on the file f; io tells whether ReadFile succeeds.
\* read tells whether the contents of the file were read.  The mode test
\* fi.Mode()&0077 != 0 is on the low six bits.
Load(f, io) ==
  IF ~f.exists THEN [err |-> NotExist, auth |-> ZeroAuth, read |-> FALSE]
  ELSE IF f.mode % 64 # 0
  THEN [err |-> SecurityError, auth |-> ZeroAuth, read |-> FALSE]
  ELSE IF ~io THEN [err |-> ReadError, auth |-> ZeroAuth, read |-> FALSE]
  ELSE IF ~f.valid THEN [err |-> BadAuthFile, auth |-> ZeroAuth, read |-> TRUE]
  ELSE [err |-> Nil, auth |-> f.data, read |-> TRUE]

\* fileAuthStore.Save of a on the file f; io tells whether WriteFile
\* succeeds.  WriteFile gives mode 0600 to a file it creates only.
Save(f, a, io) ==
  IF io
  THEN [exists |-> TRUE, mode |-> IF f.exists THEN f.mode ELSE 384,
        valid |-> TRUE, data |-> a]
  ELSE f

\* The path of cookieBase, https://{ControllerHost} without port and path.
cookieBase == <<>>

\* Snapshot that writes the zero credential.
Snapshot_Blank(a, j) == [ZeroAuth EXCEPT !.Cookies = JarCookies(j, cookieBase)]

\* api.auth after the first line of WriteConfig: the cookies are those the
\* jar gives for cookieBase.
Snapshot(a, j) == [a EXCEPT !.Cookies = JarCookies(j, cookieBase)]

\* The toggle of a wireless network: a POST of its identifier and the new
\* enabled flag to the update endpoint of the site.
EnableWirelessNetwork(site, id, enable) ==
  post("EnableWirelessNetwork", <<"api", "s", site, "upd", "wlanconf", id>>,
       << <<"_id", id>>, <<"enabled", IF enable THEN "true" ELSE "false">> >>,
       "")

\* The []WirelessNetwork a destination holds: nothing when nothing was
\* decoded into it.
Wlans(dst) ==
  IF dst.items \in DOMAIN WlanPayloads THEN WlanPayloads[dst.items] ELSE <<>>

\* The loop of the toggle command after EnableWirelessNetwork returned err
\* and aborts on an error.
Toggled_Abort(m, err) ==
  [m EXCEPT !.log = Append(@, [wlan |-> m.wlans[m.i], err |-> err]),
            !.i = IF err # Nil THEN Len(m.wlans) + 1 ELSE @ + 1,
            !.pc = "range"]

\* The loop of the toggle command after EnableWirelessNetwork returned err:
\* either way a line is logged and the loop goes to the next network.
Toggled(m, err) ==
  [m EXCEPT !.log = Append(@, [wlan |-> m.wlans[m.i], err |-> err]),
            !.i = @ + 1,
            !.pc = "range"]

----------------------------------------------------------------------------
\* State machine

Top(c) == stack[c][Len(stack[c])]
SetTop(c, f) == [stack EXCEPT ![c][Len(stack[c])] = f]

Init ==
  /\ auth \in Auths
  /\ jar = JarSetCookies({}, cookieBase, auth.Cookies)
  /\ active = {1}
  /\ stack = [c \in Callers |-> <<>>]
  /\ result = [c \in Callers |-> NoResult]
  /\ hist = [c \in Callers |-> ZeroHist]
  /\ file = [exists |-> TRUE, mode |-> 384, valid |-> TRUE, data |-> auth]
  /\ proc = Constructed(auth)
  /\ main = NoMain

\* A caller invokes an accessor.
Call(c) ==
  /\ proc.pc = "ready"
  /\ main.pc = "idle"
  /\ stack[c] = <<>>
  /\ \E site \in Sites :
       \E f \in {ListClients(site), ListWirelessNetworks(site)} :
         stack' = [stack EXCEPT ![c] = <<f>>]
  /\ result' = [result EXCEPT ![c] = NoResult]
  /\ hist' = [hist EXCEPT ![c] = ZeroHist]
  /\ UNCHANGED <<auth, jar, active, file, proc, main>>

\* hc.Do fails: nothing comes back.
DoTransportError(c) ==
  /\ stack[c] # <<>>
  /\ Top(c).pc = "do"
  /\ stack' = SetTop(c, StepError(Top(c)))
  /\ hist' = [hist EXCEPT ![c].exchanges = @ + 1,
                          ![c].failure = IF @ = NoFailure
                                         THEN [class |-> "TransportError",
                                               exchanges |-> hist[c].exchanges + 1,
                                               logins |-> hist[c].logins]
                                         ELSE @]
  /\ UNCHANGED <<auth, jar, active, result, file, proc, main>>

\* hc.Do returns a response whose body cannot be read to its end.
DoReadErrorOf(c, rs) ==
  /\ stack[c] # <<>>
  /\ Top(c).pc = "do"
  /\ \E r \in Answers(rs, Top(c)) :
       /\ jar' = JarAfter(jar, Top(c).req, r)
       /\ r.body = BadBody /\ r.status = StatusOK
  /\ stack' = SetTop(c, StepError(Top(c)))
  /\ hist' = [hist EXCEPT ![c] = Logged(@, Top(c), jar, jar'),
                          ![c].failure = IF @ = NoFailure
                                         THEN [class |-> "TransportError",
                                               exchanges |-> hist[c].exchanges + 1,
                                               logins |-> hist[c].logins]
                                         ELSE @]
  /\ UNCHANGED <<auth, active, result, file, proc, main>>

DoReadError(c) == DoReadErrorOf(c, Responses)

\* hc.Do returns a response and the loop of doReq handles it; api.login()
\* is entered when the loop calls it.  At depth MaxDepth the controller is
\* kept from asking for one more login: the code itself has no such limit.
DoResponseOf(c, rs) ==
  /\ stack[c] # <<>>
  /\ Top(c).pc = "do"
  /\ \E r \in Answers(rs, Top(c)) :
       LET f == Step(Top(c), r)
           calls == f.pc = "login"
       IN /\ calls => Len(stack[c]) < MaxDepth
          /\ jar' = JarAfter(jar, Top(c).req, r)
          /\ stack' = IF calls
                      THEN [SetTop(c, f) EXCEPT ![c] = Append(@, login)]
                      ELSE SetTop(c, f)
          /\ hist' = [hist EXCEPT
                        ![c] = Logged(@, Top(c), jar, jar'),
                        ![c].logins = IF calls THEN @ + 1 ELSE @,
                        ![c].failure =
                           IF @ = NoFailure /\ f.pc = "ret" /\ f.err = DecodeError
                           THEN [class |-> "DecodeError",
                                 exchanges |-> hist[c].exchanges + 1,
                                 logins |-> hist[c].logins]
                           ELSE @]
  /\ UNCHANGED <<auth, active, result, file, proc, main>>

DoResponse(c) == DoResponseOf(c, Responses)

\* api.login() returns to the doReq that called it.
LoginReturn(c) ==
  /\ Len(stack[c]) >= 2
  /\ Top(c).pc = "ret"
  /\ LET n == Len(stack[c])
         parent == stack[c][n - 1]
     IN stack' = [stack EXCEPT ![c] =
                    Append(SubSeq(@, 1, n - 2), AfterLogin(parent, Top(c).err))]
  /\ UNCHANGED <<auth, jar, active, result, hist, file, proc, main>>

\* The accessor returns to its caller.
CallReturn(c) ==
  /\ Len(stack[c]) = 1
  /\ Top(c).pc = "ret"
  /\ result' = [result EXCEPT ![c] = Top(c)]
  /\ stack' = [stack EXCEPT ![c] = <<>>]
  /\ UNCHANGED <<auth, jar, active, hist, file, proc, main>>

Next ==
  \/ \E c \in active : Call(c)
  \/ \E c \in active : DoTransportError(c)
  \/ \E c \in active : DoReadError(c)
  \/ \E c \in active : DoResponse(c)
  \/ \E c \in active : LoginReturn(c)
  \/ \E c \in active : CallReturn(c)

Spec == Init /\ [][Next]_vars

----------------------------------------------------------------------------
\* The process around the API: NewAPI at its start, WriteConfig at its end

\* NewAPI: the store loads the Auth, the jar is seeded with its cookies for
\* cookieBase; on an error of Load no API is made.
NewAPI ==
  /\ proc.pc = "start"
  /\ \E io \in BOOLEAN :
       LET l == Load(file, io)
       IN /\ auth' = l.auth
          /\ jar' = IF l.err = Nil
                    THEN JarSetCookies({}, cookieBase, l.auth.Cookies)
                    ELSE {}
          /\ proc' = [proc EXCEPT !.pc = IF l.err = Nil THEN "ready" ELSE "failed",
                                  !.err = l.err,
                                  !.read = l.read,
                                  !.loaded = Cred(l.auth)]
  /\ UNCHANGED <<active, stack, result, hist, file, main>>

\* WriteConfig, deferred to the end of main: the cookies of the jar are
\* snapshotted into api.auth and the Auth is saved; the process ends.
WriteConfig ==
  /\ proc.pc = "ready"
  /\ main.pc \in {"idle", "done"}
  /\ \A c \in Callers : stack[c] = <<>>
  /\ auth' = Snapshot(auth, jar)
  /\ \E io \in BOOLEAN :
       /\ file' = Save(file, auth', io)
       /\ proc' = [proc EXCEPT
                     !.pc = "exited",
                     !.err = IF io THEN Nil ELSE WriteError,
                     !.prev = [login |-> \E c \in active :
                                            /\ result[c].pc = "ret"
                                            /\ result[c].loginErr = Nil
                                            /\ result[c].err = Nil,
                               held |-> Held(jar),
                               saved |-> io]]
  /\ UNCHANGED <<jar, active, stack, result, hist, main>>

\* The program is run again; its user may have changed the mode of the file.
Restart ==
  /\ proc.pc \in {"exited", "failed"}
  /\ proc.run < MaxRuns
  /\ \E m \in Modes :
       file' = IF file.exists THEN [file EXCEPT !.mode = m] ELSE file
  /\ auth' = ZeroAuth
  /\ jar' = {}
  /\ stack' = [c \in Callers |-> <<>>]
  /\ result' = [c \in Callers |-> NoResult]
  /\ hist' = [c \in Callers |-> ZeroHist]
  /\ proc' = NewProc(proc.run + 1, proc.prev)
  /\ UNCHANGED <<active, main>>

InitStore ==
  /\ auth = ZeroAuth
  /\ jar = {}
  /\ active = {1}
  /\ stack = [c \in Callers |-> <<>>]
  /\ result = [c \in Callers |-> NoResult]
  /\ hist = [c \in Callers |-> ZeroHist]
  /\ file \in Files
  /\ proc = NewProc(1, NoPrev)
  /\ main = NoMain

NextStore ==
  \/ NewAPI
  \/ \E c \in active : Call(c)
  \/ \E c \in active : DoTransportError(c)
  \/ \E c \in active : DoResponseOf(c, SessionResponses)
  \/ \E c \in active : LoginReturn(c)
  \/ \E c \in active : CallReturn(c)
  \/ WriteConfig
  \/ Restart

SpecStore == InitStore /\ [][NextStore]_vars

----------------------------------------------------------------------------
\* Two goroutines calling into one API

InitConc ==
  /\ auth \in Auths
  /\ jar = JarSetCookies({}, cookieBase, auth.Cookies)
  /\ active = Callers
  /\ stack = [c \in Callers |-> <<>>]
  /\ result = [c \in Callers |-> NoResult]
  /\ hist = [c \in Callers |-> ZeroHist]
  /\ file = [exists |-> TRUE, mode |-> 384, valid |-> TRUE, data |-> auth]
  /\ proc = Constructed(auth)
  /\ main = NoMain

NextConc ==
  \/ \E c \in active : Call(c)
  \/ \E c \in active : DoTransportError(c)
  \/ \E c \in active : DoResponseOf(c, ConcResponses)
  \/ \E c \in active : LoginReturn(c)
  \/ \E c \in active : CallReturn(c)

SpecConc == InitConc /\ [][NextConc]_vars

----------------------------------------------------------------------------
\* The toggle command (toggle-guest-wlan)

\* main fetches the wireless networks of the site, or ends in log.Fatalf
\* when NewAPI failed.
ToggleFetch ==
  /\ main.pc = "new"
  /\ proc.pc \in {"ready", "failed"}
  /\ IF proc.pc = "failed"
     THEN /\ main' = [main EXCEPT !.pc = "fatal"]
          /\ UNCHANGED <<stack, result, hist>>
     ELSE /\ \E site \in Sites :
               stack' = [stack EXCEPT ![1] = <<ListWirelessNetworks(site)>>]
          /\ result' = [result EXCEPT ![1] = NoResult]
          /\ hist' = [hist EXCEPT ![1] = ZeroHist]
          /\ main' = [main EXCEPT !.pc = "fetch"]
  /\ UNCHANGED <<auth, jar, active, file, proc>>

\* ListWirelessNetworks has returned: log.Fatalf on an error, else the loop
\* starts on the networks decoded.
ToggleRange ==
  /\ main.pc = "fetch"
  /\ stack[1] = <<>>
  /\ result[1].pc = "ret"
  /\ main' = IF result[1].err # Nil
             THEN [main EXCEPT !.pc = "fatal"]
             ELSE [main EXCEPT !.pc = "range", !.i = 1,
                               !.wlans = Wlans(result[1].dst)]
  /\ UNCHANGED <<auth, jar, active, stack, result, hist, file, proc>>

\* One turn of the loop: a guest network is toggled, another is passed
\* over; after the last network main returns.
ToggleNext ==
  /\ main.pc = "range"
  /\ IF main.i > Len(main.wlans)
     THEN /\ main' = [main EXCEPT !.pc = "done"]
          /\ UNCHANGED <<stack, result, hist>>
     ELSE IF main.wlans[main.i].Guest
     THEN /\ \E site \in Sites :
               stack' = [stack EXCEPT ![1] =
                           <<EnableWirelessNetwork(site, main.wlans[main.i].ID,
                                                   main.enable)>>]
          /\ result' = [result EXCEPT ![1] = NoResult]
          /\ hist' = [hist EXCEPT ![1] = ZeroHist]
          /\ main' = [main EXCEPT !.pc = "set",
                                  !.toggled = Append(@, main.wlans[main.i].ID)]
     ELSE /\ main' = [main EXCEPT !.i = @ + 1]
          /\ UNCHANGED <<stack, result, hist>>
  /\ UNCHANGED <<auth, jar, active, file, proc>>

\* EnableWirelessNetwork has returned.
ToggleLogged ==
  /\ main.pc = "set"
  /\ stack[1] = <<>>
  /\ result[1].pc = "ret"
  /\ main' = Toggled(main, result[1].err)
  /\ UNCHANGED <<auth, jar, active, stack, result, hist, file, proc>>

InitToggle ==
  /\ auth = ZeroAuth
  /\ jar = {}
  /\ active = {1}
  /\ stack = [c \in Callers |-> <<>>]
  /\ result = [c \in Callers |-> NoResult]
  /\ hist = [c \in Callers |-> ZeroHist]
  /\ file \in Files
  /\ proc = NewProc(1, NoPrev)
  /\ \E enable \in BOOLEAN :
       main = [NoMain EXCEPT !.pc = "new", !.enable = enable]

NextToggle ==
  \/ NewAPI
  \/ ToggleFetch
  \/ ToggleRange
  \/ ToggleNext
  \/ ToggleLogged
  \/ \E c \in active : DoTransportError(c)
  \/ \E c \in active : DoResponseOf(c, ToggleResponses)
  \/ \E c \in active : LoginReturn(c)
  \/ \E c \in active : CallReturn(c)
  \/ WriteConfig

SpecToggle == InitToggle /\ [][NextToggle]_vars

----------------------------------------------------------------------------
\* Properties

\* Every doReq activation in the state: those on the stacks and the
\* outermost one of each finished call.
Frames ==
  UNION {{stack[c][i] : i \in 1..Len(stack[c])} : c \in Callers}
    \cup {result[c] : c \in Callers}

\* f went on after a response instead of returning.
Continued(f) == f.sends = 2 \/ (f.sends = 1 /\ f.pc = "do")

\* The last exchange of f brought a response that decoded as an envelope.
LastDecoded(f) == f.gotResp /\ f.last.body.valid

LoginThenResend(f) ==
  /\ f.logins = 1
  /\ f.loginErr = Nil => f.sends = 2
  /\ f.loginErr # Nil => f.sends = 1 /\ f.err = f.loginErr

C3_BoundedLoginChain ==
  \A c \in Callers : Len(stack[c]) <= 2 /\ hist[c].exchanges <= 3

\* C4: whenever a request is sent again, login has been tried and the
\* request is the one doReq was entered with, its body complete.
C4_ResendRebuilt ==
  \A c \in Callers : \A i \in 1..Len(stack[c]) :
    LET f == stack[c][i]
    IN (f.pc = "do" /\ f.sends >= 1) => f.triedLogin /\ f.req = f.built

\* C5 as stated: login returns nil exactly when the response to its POST has
\* status 200.
C5_StatusAlone ==
  \A c \in Callers : \A i \in 1..Len(stack[c]) :
    LET f == stack[c][i]
    IN (f.kind = "login" /\ f.pc = "ret")
         => (f.err = Nil <=> (f.gotResp /\ f.last.status = StatusOK))

\* C5 amended: login returns nil exactly when the last exchange of its POST
\* brought a response of status 200 whose body decodes as an envelope with
\* result code "ok".
C5_StatusAndCode ==
  \A c \in Callers : \A i \in 1..Len(stack[c]) :
    LET f == stack[c][i]
    IN (f.kind = "login" /\ f.pc = "ret")
         => (f.err = Nil <=> (/\ LastDecoded(f)
                              /\ f.last.status = StatusOK
                              /\ f.last.body.rc = "ok"))

\* C5: a login answered 200 with a result code other than "ok" has failed.
C5_Witness ==
  \E c \in Callers : \E i \in 1..Len(stack[c]) :
    LET f == stack[c][i]
    IN /\ f.kind = "login" /\ f.pc = "ret" /\ f.sends = 1
       /\ LastDecoded(f) /\ f.last.status = StatusOK /\ f.last.body.rc = "error"
       /\ f.err.class = "APIError"

\* C6: an activation of login sends one request and calls no login.
C6_LoginSendsOnce ==
  \A c \in Callers : \A i \in 1..Len(stack[c]) :
    LET f == stack[c][i]
    IN f.kind = "login" => f.sends <= 1 /\ f.logins = 0

\* C7: a call whose last response has status 200 and result code "ok"
\* returns nil, its destination holding what that response's body decodes to.
C7_PayloadOfResponse ==
  \A c \in Callers :
    LET f == result[c]
    IN (/\ f.pc = "ret"
        /\ LastDecoded(f)
        /\ f.last.status = StatusOK
        /\ f.last.body.rc = "ok")
         => /\ f.err = Nil
            /\ f.dst = Unmarshal(ZeroDec, ZeroDst, f.last.body).dst

\* The one failure doReq resolves itself: a first 401 with the login-required
\* envelope whose login returned nil.
Recovered(f) ==
  /\ f.first.status = StatusUnauthorized /\ f.first.valid
  /\ f.first.rc = "error" /\ f.first.msg = LoginRequired
  /\ f.loginErr = Nil

\* C8: an activation returns nil only if its last response had status 200,
\* decoded and carried result code "ok"; a transport, decode, API, status or
\* login failure is what it returns, and it goes on after a response only
\* past a login-required 401 whose login succeeded.
C8_NoErrorSwallowed ==
  \A f \in Frames :
    /\ f.pc = "ret" =>
         /\ f.err = Nil => /\ LastDecoded(f)
                           /\ f.last.status = StatusOK
                           /\ f.last.body.rc = "ok"
         /\ f.loginErr \notin {NoFailure, Nil} => f.err = f.loginErr
         /\ f.loginErr \in {NoFailure, Nil} =>
              /\ ~f.gotResp => f.err = TransportError
              /\ (f.gotResp /\ ~f.last.body.valid) => f.err = DecodeError
              /\ (LastDecoded(f) /\ f.last.status = StatusOK /\ f.dec.Code # "ok")
                   => f.err = APIError(f.dec.Code, f.dec.Msg)
              /\ (LastDecoded(f) /\ f.last.status # StatusOK)
                   => f.err = HTTPError(f.last.status)
    /\ Continued(f) => Recovered(f)

\* C8: a call has returned the status error of its resend, after a login
\* that succeeded.
C8_Witness ==
  \E c \in Callers :
    /\ result[c].pc = "ret" /\ result[c].sends = 2
    /\ result[c].loginErr = Nil
    /\ result[c].err = HTTPError(500)

\* The call of c is over or unwinding: nothing is left to send.
Unwinding(c) ==
  \A i \in 1..Len(stack[c]) :
    /\ stack[c][i].pc = (IF i = Len(stack[c]) THEN "ret" ELSE "login")

\* After the first failure of the given class, the call of c has made no
\* further exchange and no further login, and returns that error.
EndsCall(c, class, err) ==
  hist[c].failure.class = class =>
    /\ hist[c].exchanges = hist[c].failure.exchanges
    /\ hist[c].logins = hist[c].failure.logins
    /\ Unwinding(c)
    /\ \A i \in 1..Len(stack[c]) : stack[c][i].pc = "ret" => stack[c][i].err = err
    /\ result[c].pc = "ret" => result[c].err = err

\* C9: a body that does not decode as an envelope makes the activation return
\* a decode error whatever the status, and the call makes no login and no
\* exchange after it.
C9_DecodeErrorEnds ==
  /\ \A f \in Frames :
       (f.pc = "ret" /\ f.gotResp /\ ~f.last.body.valid) => f.err = DecodeError
  /\ \A c \in Callers : EndsCall(c, "DecodeError", DecodeError)

\* C9: a 401 with an undecodable body has ended a call after one exchange.
C9_Witness ==
  \E c \in Callers :
    /\ result[c].pc = "ret" /\ result[c].err = DecodeError
    /\ result[c].last.status = StatusUnauthorized
    /\ hist[c].exchanges = 1 /\ hist[c].logins = 0

\* C10: a send that fails in the transport, be it the first attempt, the
\* login POST or the resend, makes its activation return the error, and the
\* call makes no login and no exchange after it.
C10_TransportErrorEnds ==
  /\ \A f \in Frames :
       (f.sends >= 1 /\ ~f.gotResp) => f.pc = "ret" /\ f.err = TransportError
  /\ \A c \in Callers : EndsCall(c, "TransportError", TransportError)

\* C10: a call has returned the transport error of its resend.
C10_Witness ==
  \E c \in Callers :
    /\ result[c].pc = "ret" /\ result[c].sends = 2 /\ ~result[c].gotResp
    /\ result[c].err = TransportError
    /\ hist[c].exchanges = 3

\* The first response of f asks for a login: 401 with the envelope doReq
\* tests for.
AsksLogin(h) ==
  /\ h.status = StatusUnauthorized
  /\ h.rc = "error"
  /\ h.msg = LoginRequired

\* What is true of f once its first response decoded with a status other
\* than 200 and without the login-required envelope.
StatusErrorAtOnce(f) ==
  (/\ f.sends >= 1
   /\ f.first.valid
   /\ f.first.status # StatusOK
   /\ ~AsksLogin(f.first))
    => /\ f.pc \in {"ret", "none"}
       /\ f.err = HTTPError(f.first.status)
       /\ f.sends = 1
       /\ f.logins = 0

\* C11: a first response that decodes and has status 401 without the
\* login-required envelope, or a status other than 200 and 401, makes the
\* activation return the HTTP status error with that status: it calls no
\* login and does not send again, and a call so answered has made exactly
\* one exchange.
C11_StatusErrorEnds ==
  /\ \A f \in Frames : f.pc # "none" => StatusErrorAtOnce(f)
  /\ \A c \in Callers :
       (/\ result[c].pc = "ret"
        /\ result[c].first.valid
        /\ result[c].first.status # StatusOK
        /\ ~AsksLogin(result[c].first))
         => hist[c].exchanges = 1 /\ hist[c].logins = 0

\* C11: a call answered 401 with another message has returned the status
\* error after one exchange.
C11_Witness ==
  \E c \in Callers :
    /\ result[c].pc = "ret"
    /\ result[c].first.status = StatusUnauthorized
    /\ result[c].first.rc = "error"
    /\ result[c].first.msg = "api.err.Invalid"
    /\ result[c].err = HTTPError(StatusUnauthorized)
    /\ hist[c].exchanges = 1

\* The result code and message that a body alone decodes to.
Own(body) == Unmarshal(ZeroDec, ZeroDst, body).dec

\* C12: a response of status 200 whose result code is not "ok" makes the
\* activation return the API error with the result code and message of that
\* response, without a login or another send.
C12_APIErrorOfResponse ==
  \A f \in Frames :
    (/\ f.sends >= 1
     /\ LastDecoded(f)
     /\ f.last.status = StatusOK
     /\ f.last.body.rc # "ok")
      => /\ f.pc \in {"ret", "none"}
         /\ f.err = APIError(Own(f.last.body).Code, Own(f.last.body).Msg)

\* C18: after the resend the decoder holds the result code and message of
\* the resend's response, and nothing of the first response.
C18_OwnResponse ==
  \A f \in Frames :
    (f.sends = 2 /\ LastDecoded(f)) => f.dec = Own(f.last.body)

\* C13: a call that recovered from an expired session and whose resend was
\* answered 200 with result code "ok" has made exactly three exchanges, its
\* request, the POST of /api/login and its request again; the resend carried
\* the cookies of the jar as the login response left it, and the call
\* returns nil with the payload of the resend's response.
C13_RecoveryOrder ==
  \A c \in Callers :
    LET f == result[c]
        w == hist[c].wire
    IN (/\ f.pc = "ret"
        /\ Recovered(f)
        /\ f.sends = 2
        /\ LastDecoded(f)
        /\ f.last.status = StatusOK
        /\ f.last.body.rc = "ok")
         => /\ hist[c].exchanges = 3
            /\ w = <<Line(f.built), Line(login.built), Line(f.built)>>
            /\ hist[c].sent = JarCookies(hist[c].stored, f.built.URL.Path)
            /\ f.err = Nil
            /\ f.dst = Unmarshal(ZeroDec, ZeroDst, f.last.body).dst

\* C14: when the auth file has a group or other permission bit set, Load
\* fails with the security error and has not read the file's contents,
\* NewAPI returns that error and makes no API (no Auth, an empty jar), and
\* the process makes no call and no exchange.
C14_SecurityCheck ==
  (proc.pc # "start" /\ file.exists /\ file.mode % 64 # 0)
    => /\ proc.pc = "failed"
       /\ proc.err = SecurityError
       /\ ~proc.read
       /\ auth = ZeroAuth
       /\ jar = {}
       /\ \A c \in Callers : stack[c] = <<>> /\ hist[c].exchanges = 0

\* C14: NewAPI has failed on a group-readable file that a run before had
\* saved a session to.
C14_Witness ==
  /\ proc.pc = "failed"
  /\ proc.err = SecurityError
  /\ file.mode = 416
  /\ file.valid
  /\ proc.prev.held # {}
  /\ proc.run = 2

\* The requests an API may make first.
FirstRequests ==
  UNION {{ListClients(site), ListWirelessNetworks(site)} : site \in Sites}

\* C15: when the last call of a run logged in with success and WriteConfig
\* saved the Auth, every cookie the jar held as WriteConfig ran is, in the
\* run that follows, sent with the first request of the new API.
C15_RoundTrip ==
  (/\ proc.run >= 2
   /\ proc.pc = "ready"
   /\ proc.prev.login
   /\ proc.prev.saved
   /\ \A c \in Callers : stack[c] = <<>> /\ result[c] = NoResult)
    => \A f \in FirstRequests : proc.prev.held \subseteq OnWire(f.req, jar).Cookies

\* C16: from NewAPI to the end of the process the username, the password and
\* the controller host of api.auth are those that were loaded, and after
\* WriteConfig the auth file holds those three values.
C16_CredentialKept ==
  proc.pc \in {"ready", "exited"}
    => /\ Cred(auth) = proc.loaded
       /\ (proc.pc = "exited" /\ proc.err = Nil)
            => file.valid /\ Cred(file.data) = proc.loaded

\* C16: a run that re-authenticated has saved a new session cookie with the
\* credential it loaded.
C16_Witness ==
  /\ proc.pc = "exited"
  /\ proc.err = Nil
  /\ proc.loaded.Password = "pw2"
  /\ \E c \in Callers : result[c].pc = "ret" /\ result[c].logins = 1
                        /\ result[c].loginErr = Nil
  /\ file.data.Cookies = {Cookie("unifises", "s1", FALSE, <<>>)}
  /\ file.data.Password = "pw2"

\* The response to the request of c sends c into api.login().
EntersLogin(c) ==
  /\ DoResponseOf(c, ConcResponses)
  /\ Len(stack'[c]) = Len(stack[c]) + 1

\* C17: a call at its first attempt can be answered login-required and
\* enter api.login() whatever the other calls are doing, also while another
\* call is inside its own login.
C17_LoginsNotExclusive ==
  \A c \in active :
    (Len(stack[c]) = 1 /\ Top(c).pc = "do" /\ Top(c).sends = 0)
      => ENABLED EntersLogin(c)

\* C17: both calls are inside their own login, each login has been answered
\* with a session cookie, and the one jar holds what the later answer set.
C17_Witness ==
  /\ active = Callers
  /\ \A c \in Callers :
       /\ Len(stack[c]) = 2
       /\ stack[c][1].pc = "login" /\ stack[c][1].sends = 1
       /\ Top(c).kind = "login" /\ Top(c).pc = "ret" /\ Top(c).err = Nil
       /\ hist[c].logins = 1
       /\ hist[c].stored # {}
  /\ \E c \in Callers : jar = hist[c].stored

\* The networks the loop has come to: all before the one it is at, and that
\* one too while its toggle is running.
Reached ==
  SubSeq(main.wlans, 1, IF main.pc = "set" THEN main.i ELSE main.i - 1)

\* The identifiers of the guest networks among ws, in order.
GuestIDs(ws) ==
  LET g == SelectSeq(ws, LAMBDA w : w.Guest)
  IN [k \in 1..Len(g) |-> g[k].ID]

\* C19: once the list is fetched, the toggles invoked so far are those of
\* the guest networks the loop has come to, one each and in list order; each
\* toggle that returned is logged with what it returned, error or not; the
\* loop ends only past the last network, and main ends fatally only before
\* any toggle.
C19_TogglePerGuest ==
  /\ main.pc \in {"range", "set", "done"}
       => /\ main.i <= Len(main.wlans) + 1
          /\ main.toggled = GuestIDs(Reached)
          /\ Len(main.log) = Len(GuestIDs(SubSeq(main.wlans, 1, main.i - 1)))
          /\ \A k \in 1..Len(main.log) : main.log[k].wlan.ID = main.toggled[k]
  /\ main.pc = "done" => main.i = Len(main.wlans) + 1
  /\ main.pc = "fatal" => main.toggled = <<>>

\* C19: of three networks the first and the third, the guest ones, were
\* toggled; the first toggle failed and the second was made all the same.
C19_Witness ==
  /\ main.pc = "done"
  /\ Len(main.wlans) = 3
  /\ main.toggled = <<"g1", "g3">>
  /\ main.log[1].err # Nil
  /\ main.log[2].err = Nil

====
